---------------------------- MODULE Spec2Model ----------------------------
(***************************************************************************)
(* MalDNS: a single-threaded DNS forwarding proxy (src/src/main.rs) and    *)
(* its wire-format parser and serializer (src/src/dns.rs).                 *)
(*                                                                         *)
(* Bytes are numbers in 0..255; a byte string is a sequence of bytes.  The *)
(* offset i of the Rust code (0-based) is element i+1 of the sequence.     *)
(***************************************************************************)
EXTENDS Integers, Sequences, FiniteSets, TLC

VARIABLES
    pc,         \* position of main's loop
    buffer,     \* main.rs:14, the one receive buffer, reused by every receive
    src,        \* main.rs:18, source address of the client datagram of the cycle
    query_id,   \* main.rs:36
    elapsed,    \* main.rs:39/61, whole seconds since current_time was taken
    response,   \* main.rs:43, the matched response (Some(response))
    rcvd,       \* history: the datagram of the last recv_from, as delivered
    cycleDgram, \* history: the client datagram that started the current cycle
    cycleSrc,   \* history: the source address of that client datagram
    matchedFrom, \* history: the source address of the response matched in the cycle
    sent,       \* history: the datagrams sent during the current cycle
    parser      \* dns.rs:107-114, a PacketParser over the buffer, followed call by call

vars == <<pc, buffer, src, query_id, elapsed, response, rcvd, cycleDgram, cycleSrc,
          matchedFrom,
          sent, parser>>

-----------------------------------------------------------------------------
(* Program constants.                                                      *)

\* main.rs:14, [u8; 512]
BufLen == 512
\* main.rs:61, as_secs() >= 5
TimeoutSecs == 5
\* dns.rs:128, 0xC0
JmpMask == 192
\* dns.rs:205, the header is 12 bytes
HeaderLen == 12

(* Bounds of the model.                                                    *)

\* the clock of a cycle is followed up to this many seconds
MaxElapsed == 6

-----------------------------------------------------------------------------
(* Byte helpers.                                                           *)

Min(a, b) == IF a < b THEN a ELSE b

\* u16::from_be_bytes
from_be_bytes(bs) == bs[1] * 256 + bs[2]

\* u16::to_be_bytes
to_be_bytes(n) == << (n \div 256) % 256, n % 256 >>

\* u32 big endian, as deku writes and reads ttl
from_be_bytes32(bs) == ((bs[1] * 256 + bs[2]) * 256 + bs[3]) * 256 + bs[4]

to_be_bytes32(n) ==
    << (n \div 16777216) % 256, (n \div 65536) % 256, (n \div 256) % 256, n % 256 >>

Zeros(n) == [ i \in 1..n |-> 0 ]

-----------------------------------------------------------------------------
(* dns.rs: Header, Question, Record and their deku codecs.                 *)

\* Header::from_bytes over the 12 header bytes (dns.rs:44-74)
HeaderFromBytes(bs) ==
    [ id       |-> from_be_bytes(SubSeq(bs, 1, 2)),
      qr       |-> bs[3] \div 128,
      opcode   |-> (bs[3] \div 8) % 16,
      aa       |-> (bs[3] \div 4) % 2,
      tc       |-> (bs[3] \div 2) % 2,
      rd       |-> bs[3] % 2,
      ra       |-> bs[4] \div 128,
      z        |-> (bs[4] \div 16) % 8,
      r_code   |-> bs[4] % 16,
      qd_count |-> from_be_bytes(SubSeq(bs, 5, 6)),
      an_count |-> from_be_bytes(SubSeq(bs, 7, 8)),
      ns_count |-> from_be_bytes(SubSeq(bs, 9, 10)),
      ar_count |-> from_be_bytes(SubSeq(bs, 11, 12)) ]

\* Header::to_bytes (dns.rs:44-74)
HeaderToBytes(h) ==
    to_be_bytes(h.id)
    \o << h.qr * 128 + h.opcode * 8 + h.aa * 4 + h.tc * 2 + h.rd,
          h.ra * 128 + h.z * 16 + h.r_code >>
    \o to_be_bytes(h.qd_count) \o to_be_bytes(h.an_count)
    \o to_be_bytes(h.ns_count) \o to_be_bytes(h.ar_count)

NoQuestion == [ name |-> << >>, ty |-> 0, class |-> 0 ]

\* index of the first zero byte of bs, 0 when there is none
FirstZero(bs) ==
    LET zs == { i \in 1..Len(bs) : bs[i] = 0 }
    IN  IF zs = {} THEN 0 ELSE CHOOSE i \in zs : \A j \in zs : i <= j

\* Question::try_from(&[u8]) (dns.rs:76-86): name is read until the first zero
\* byte, then ty and class; bytes missing or left over are an error.
QuestionTryFrom(bs) ==
    LET z == FirstZero(bs)
    IN  IF z = 0 \/ Len(bs) # z + 4
        THEN [ ok |-> FALSE, value |-> NoQuestion ]
        ELSE [ ok |-> TRUE,
               value |-> [ name  |-> SubSeq(bs, 1, z),
                           ty    |-> from_be_bytes(SubSeq(bs, z + 1, z + 2)),
                           class |-> from_be_bytes(SubSeq(bs, z + 3, z + 4)) ] ]

\* Question::to_bytes (dns.rs:76-86)
QuestionToBytes(q) == q.name \o to_be_bytes(q.ty) \o to_be_bytes(q.class)

NoRecord == [ name |-> 0, ty |-> 0, class |-> 0, ttl |-> 0, len |-> 0, data |-> << >> ]

\* Record::try_from(&[u8]) (dns.rs:88-105): name is a fixed u16, whatever the
\* name on the wire was; data is exactly len bytes; bytes missing or left over
\* are an error.
RecordTryFrom(bs) ==
    IF Len(bs) < 12
    THEN [ ok |-> FALSE, value |-> NoRecord ]
    ELSE LET len == from_be_bytes(SubSeq(bs, 11, 12))
         IN  IF Len(bs) # 12 + len
             THEN [ ok |-> FALSE, value |-> NoRecord ]
             ELSE [ ok |-> TRUE,
                    value |-> [ name  |-> from_be_bytes(SubSeq(bs, 1, 2)),
                                ty    |-> from_be_bytes(SubSeq(bs, 3, 4)),
                                class |-> from_be_bytes(SubSeq(bs, 5, 6)),
                                ttl   |-> from_be_bytes32(SubSeq(bs, 7, 10)),
                                len   |-> len,
                                data  |-> SubSeq(bs, 13, Len(bs)) ] ]

\* Record::to_bytes (dns.rs:88-105): len is written as stored, data as it is
RecordToBytes(r) ==
    to_be_bytes(r.name) \o to_be_bytes(r.ty) \o to_be_bytes(r.class)
    \o to_be_bytes32(r.ttl) \o to_be_bytes(r.len) \o r.data

RECURSIVE Concat(_)
Concat(parts) == IF parts = << >> THEN << >> ELSE Head(parts) \o Concat(Tail(parts))

\* T::to_bytes for the two element types monolithize is used with
to_bytes(x) == IF "ttl" \in DOMAIN x THEN RecordToBytes(x) ELSE QuestionToBytes(x)

\* monolithize (dns.rs:7-12): the to_bytes of every element, concatenated
monolithize(vector) == Concat([ i \in 1..Len(vector) |-> to_bytes(vector[i]) ])

NoHeader == HeaderFromBytes(Zeros(12))

NoPacket ==
    [ header |-> NoHeader, questions |-> << >>, answers |-> << >>,
      authorities |-> << >>, additionals |-> << >> ]

\* DNSPacket::serialize (dns.rs:34-41)
serialize(p) ==
    HeaderToBytes(p.header)
    \o monolithize(p.questions)
    \o monolithize(p.answers)
    \o monolithize(p.authorities)
    \o monolithize(p.additionals)

-----------------------------------------------------------------------------
(* dns.rs: PacketParser.  The cursor `current` is threaded through the     *)
(* operators; each returns the new cursor with its result.                 *)

\* get_current_byte (dns.rs:122-124)
get_current_byte(buf, current) == buf[current + 1]

\* is_current_jmp (dns.rs:127-129)
is_current_jmp(buf, current) == get_current_byte(buf, current) >= JmpMask

\* get_name_length (dns.rs:137-143): the bytes from current up to the first
\* zero byte (or the end of the buffer), plus one
get_name_length(buf, current) ==
    LET zs == { i \in current..(Len(buf) - 1) : buf[i + 1] = 0 }
    IN  IF zs = {} THEN (Len(buf) - current) + 1
        ELSE (CHOOSE i \in zs : \A j \in zs : i <= j) - current + 1

\* an advance_n that lets the cursor come to rest on the end of the buffer
advance_n_to_end(buf, current, n) ==
    IF current + n <= Len(buf)
    THEN [ ok |-> TRUE, current |-> current + n,
           bytes |-> SubSeq(buf, current + 1, current + n) ]
    ELSE [ ok |-> FALSE, current |-> current, bytes |-> << >> ]

\* advance_n (dns.rs:148-158): succeeds only if offset current + n is still
\* inside the buffer
advance_n(buf, current, n) ==
    IF current + n < Len(buf)
    THEN [ ok |-> TRUE, current |-> current + n,
           bytes |-> SubSeq(buf, current + 1, current + n) ]
    ELSE [ ok |-> FALSE, current |-> current, bytes |-> << >> ]

\* parse_name (dns.rs:163-175); the decompress_map entry it writes is never read
parse_name(buf, current) ==
    IF is_current_jmp(buf, current)
    THEN advance_n(buf, current, 2)
    ELSE advance_n(buf, current, get_name_length(buf, current))

(* A parse in progress: kind is "Ok", "Err" (a `?` returned the error) or  *)
(* "Panic" (an unwrap of a deku error); current is the cursor; bytes are   *)
(* the bytes gathered for the entry being parsed (question_bytes,          *)
(* record_bytes).                                                          *)

Gather(current) == [ kind |-> "Ok", current |-> current, bytes |-> << >> ]

\* the `?` on a result a of advance_n or parse_name, and the extend of the
\* gathered bytes with its slice (dns.rs:181-194, 213-216)
and_then(p, a) ==
    IF a.ok
    THEN [ kind |-> "Ok", current |-> a.current, bytes |-> p.bytes \o a.bytes ]
    ELSE [ kind |-> "Err", current |-> p.current, bytes |-> << >> ]

\* self.parse_name()? (dns.rs:181, 213)
take_name(buf, p) ==
    IF p.kind # "Ok" THEN p ELSE and_then(p, parse_name(buf, p.current))

\* self.advance_n(n)? (dns.rs:184, 187, 216)
take(buf, p, n) ==
    IF p.kind # "Ok" THEN p ELSE and_then(p, advance_n(buf, p.current, n))

\* dns.rs:187-194: the two bytes read last are the length; that many bytes of
\* data are read and follow the length in record_bytes
take_data(buf, p) ==
    IF p.kind # "Ok" THEN p
    ELSE take(buf, p, from_be_bytes(SubSeq(p.bytes, Len(p.bytes) - 1, Len(p.bytes))))

\* Record::try_from(record_bytes.as_ref()).unwrap() (dns.rs:196)
unwrap_record(p) ==
    IF p.kind # "Ok" THEN [ kind |-> p.kind, current |-> p.current, value |-> NoRecord ]
    ELSE IF RecordTryFrom(p.bytes).ok
    THEN [ kind |-> "Ok", current |-> p.current, value |-> RecordTryFrom(p.bytes).value ]
    ELSE [ kind |-> "Panic", current |-> p.current, value |-> NoRecord ]

\* one iteration of the loop of parse_record (dns.rs:180-197)
parse_one_record(buf, current) ==
    unwrap_record(take_data(buf, take(buf, take(buf, take_name(buf, Gather(current)), 8), 2)))

\* parse_record (dns.rs:177-200): record_count records, or the first failure
RECURSIVE parse_record_from(_, _, _, _)
parse_record_from(buf, current, record_count, records) ==
    IF Len(records) = record_count
    THEN [ kind |-> "Ok", current |-> current, records |-> records ]
    ELSE LET r == parse_one_record(buf, current)
         IN  IF r.kind # "Ok"
             THEN [ kind |-> r.kind, current |-> r.current, records |-> << >> ]
             ELSE parse_record_from(buf, r.current, record_count,
                                    Append(records, r.value))

parse_record(buf, current, record_count) ==
    parse_record_from(buf, current, record_count, << >>)

\* Question::try_from(question_bytes.as_ref()).unwrap() (dns.rs:218)
unwrap_question(p) ==
    IF p.kind # "Ok" THEN [ kind |-> p.kind, current |-> p.current, value |-> NoQuestion ]
    ELSE IF QuestionTryFrom(p.bytes).ok
    THEN [ kind |-> "Ok", current |-> p.current, value |-> QuestionTryFrom(p.bytes).value ]
    ELSE [ kind |-> "Panic", current |-> p.current, value |-> NoQuestion ]

\* one iteration of the question loop of deserialize (dns.rs:212-219)
parse_one_question(buf, current) ==
    unwrap_question(take(buf, take_name(buf, Gather(current)), 4))

\* the question loop of deserialize (dns.rs:210-219)
RECURSIVE parse_questions_from(_, _, _, _)
parse_questions_from(buf, current, count, questions) ==
    IF Len(questions) = count
    THEN [ kind |-> "Ok", current |-> current, records |-> questions ]
    ELSE LET r == parse_one_question(buf, current)
         IN  IF r.kind # "Ok"
             THEN [ kind |-> r.kind, current |-> r.current, records |-> << >> ]
             ELSE parse_questions_from(buf, r.current, count,
                                       Append(questions, r.value))

(* The result of deserialize: kind is "Ok" (a packet), "Err" (an error     *)
(* value) or "Panic"; current is the cursor at the return.                 *)

Failed(kind, current) == [ kind |-> kind, current |-> current, packet |-> NoPacket ]

\* the `?` on a parsed section r, and its place in the packet
with_section(d, r, section) ==
    IF r.kind # "Ok" THEN Failed(r.kind, r.current)
    ELSE [ kind |-> "Ok", current |-> r.current,
           packet |-> [ d.packet EXCEPT ![section] = r.records ] ]

\* dns.rs:205-207: the header
parse_header(buf, hb) ==
    IF ~hb.ok THEN Failed("Err", hb.current)
    ELSE [ kind |-> "Ok", current |-> hb.current,
           packet |-> [ NoPacket EXCEPT !.header = HeaderFromBytes(hb.bytes) ] ]

\* dns.rs:210-219
parse_questions(buf, d) ==
    IF d.kind # "Ok" THEN d
    ELSE with_section(d, parse_questions_from(buf, d.current,
                             d.packet.header.qd_count, << >>), "questions")

\* dns.rs:222
parse_answers(buf, d) ==
    IF d.kind # "Ok" THEN d
    ELSE with_section(d, parse_record(buf, d.current, d.packet.header.an_count),
                      "answers")

\* dns.rs:224
parse_authorities(buf, d) ==
    IF d.kind # "Ok" THEN d
    ELSE with_section(d, parse_record(buf, d.current, d.packet.header.ns_count),
                      "authorities")

\* dns.rs:226
parse_additionals(buf, d) ==
    IF d.kind # "Ok" THEN d
    ELSE with_section(d, parse_record(buf, d.current, d.packet.header.ar_count),
                      "additionals")

\* PacketParser::new(&buffer).deserialize() (dns.rs:117-119, 203-229)
deserialize(buf) ==
    parse_additionals(buf,
      parse_authorities(buf,
        parse_answers(buf,
          parse_questions(buf,
            parse_header(buf, advance_n(buf, 0, HeaderLen))))))

-----------------------------------------------------------------------------
(* main.rs: the response rewrite.                                          *)

\* "google.com" (main.rs:69)
TargetDomain == << 103, 111, 111, 103, 108, 101, 46, 99, 111, 109 >>

\* u32::to_be_bytes(0x01_03_03_07) (main.rs:72)
FixedAddress == << 1, 3, 3, 7 >>

\* str::contains (main.rs:69)
contains(s, t) ==
    \E i \in 0..(Len(s) - Len(t)) : SubSeq(s, i + 1, i + Len(t)) = t

\* Question::get_name_as_string: the labels of the name joined by dots
RECURSIVE labels_from(_, _)
labels_from(name, i) ==
    IF i > Len(name) \/ name[i] = 0 \/ name[i] >= JmpMask THEN << >>
    ELSE LET label == SubSeq(name, i + 1, Min(i + name[i], Len(name)))
             rest  == labels_from(name, i + name[i] + 1)
         IN  IF rest = << >> THEN label ELSE label \o << 46 >> \o rest

get_name_as_string(q) == labels_from(q.name, 1)

\* the condition of main.rs:69, for a response that has a first question
is_target(resp) == contains(get_name_as_string(resp.questions[1]), TargetDomain)

\* the closure of main.rs:72, applied to one answer record
rewrite_record(resp, r) == [ r EXCEPT !.data = FixedAddress ]

\* main.rs:69-73: the rewrite of the answers of a matched response
rewrite(resp) ==
    IF is_target(resp)
    THEN [ resp EXCEPT !.answers =
             [ i \in 1..Len(resp.answers) |-> rewrite_record(resp, resp.answers[i]) ] ]
    ELSE resp

\* a correlation test that compares the low byte of the ids only
id_matches_low_byte(resp, qid) == resp.header.id % 256 = qid % 256

\* main.rs:56, the correlation test
id_matches(resp, qid) == resp.header.id = qid

\* main.rs:61, current_time.elapsed(): SystemTime is the wall clock, and when it
\* reads earlier than current_time the result is an Err, which is unwrapped;
\* a negative number of seconds stands for that reading
clock_behind(secs) == secs < 0

\* main.rs:61, the timeout test
timed_out(secs) == secs >= TimeoutSecs

-----------------------------------------------------------------------------
(* The datagrams the network delivers.                                     *)

\* [6]google[3]com[0]
GoogleName == << 6, 103, 111, 111, 103, 108, 101, 3, 99, 111, 109, 0 >>

\* [7]agoogle[3]com[0]
AGoogleName == << 7, 97, 103, 111, 111, 103, 108, 101, 3, 99, 111, 109, 0 >>

\* a compression pointer to offset 12
PtrName == << 192, 12 >>

Hdr(id, qr, qd, an, ns, ar) ==
    to_be_bytes(id) \o << qr * 128 + 1, qr * 128 >>
    \o to_be_bytes(qd) \o to_be_bytes(an) \o to_be_bytes(ns) \o to_be_bytes(ar)

\* a question of type A, class IN
Qn(name) == name \o << 0, 1, 0, 1 >>

\* a record of class IN, ttl 60
Rec(name, ty, data) ==
    name \o to_be_bytes(ty) \o << 0, 1, 0, 0, 0, 60 >> \o to_be_bytes(Len(data)) \o data

QueryGoogle == Hdr(4660, 0, 1, 0, 0, 0) \o Qn(GoogleName)

QueryOther == Hdr(564, 0, 1, 0, 0, 0) \o Qn(AGoogleName)

\* a header that declares one question, and nothing after it
QueryTruncated == Hdr(4660, 0, 1, 0, 0, 0)

\* a question whose name is a compression pointer
QueryPtr == Hdr(3, 0, 1, 0, 0, 0) \o Qn(PtrName)

\* a record that declares 65535 bytes of data
Oversized ==
    Hdr(7, 1, 0, 1, 0, 0) \o PtrName \o << 0, 1, 0, 1, 0, 0, 0, 60, 255, 255 >>

\* answers: an A record and a CNAME record; one authority and one additional A record
RespGoogle ==
    Hdr(4660, 1, 1, 2, 1, 1) \o Qn(GoogleName)
    \o Rec(PtrName, 1, << 8, 8, 8, 8 >>) \o Rec(PtrName, 5, << 192, 12 >>)
    \o Rec(PtrName, 1, << 9, 9, 9, 9 >>) \o Rec(PtrName, 1, << 9, 9, 9, 9 >>)

RespOther ==
    Hdr(564, 1, 1, 1, 0, 0) \o Qn(AGoogleName) \o Rec(PtrName, 1, << 8, 8, 4, 4 >>)

\* a response with no question section
RespNoQuestion == Hdr(4660, 1, 0, 1, 0, 0) \o Rec(PtrName, 1, << 8, 8, 8, 8 >>)

\* an_count = 2 with a single record
RespShortCount ==
    Hdr(4660, 1, 1, 2, 0, 0) \o Qn(GoogleName) \o Rec(PtrName, 1, << 8, 8, 8, 8 >>)

Datagrams ==
    { QueryGoogle, QueryOther, QueryTruncated, QueryPtr, Oversized,
      RespGoogle, RespOther, RespNoQuestion, RespShortCount }

Upstream == "8.8.8.8:53"

\* the program never compares addresses (main.rs:18, 44, 76), so one client
\* and the upstream resolver give every pattern of equal and different
\* sources of the datagrams of a cycle
Clients == { "client1" }

Sources == Clients \cup { Upstream }

NoAddr == "none"

-----------------------------------------------------------------------------
(* main.rs: the proxy loop.                                                *)

\* socket.recv_from(&mut buffer) (main.rs:18, 44): the datagram overwrites the
\* first bytes of the buffer, the rest of the buffer keeps what it held; of a
\* datagram longer than the buffer only the first Len(buf) bytes are received
recv_from(buf, d) ==
    SubSeq(d, 1, Min(Len(d), Len(buf)))
    \o SubSeq(buf, Min(Len(d), Len(buf)) + 1, Len(buf))

\* no PacketParser is being followed
NoParser ==
    [ stage |-> "idle", section |-> "none", current |-> 0, lo |-> 0, n |-> 0,
      bytes |-> << >>, packet |-> NoPacket ]

Init ==
    /\ pc = "Binding"
    /\ buffer = Zeros(BufLen)
    /\ src = NoAddr
    /\ query_id = 0
    /\ elapsed = 0
    /\ response = NoPacket
    /\ rcvd = << >>
    /\ cycleDgram = << >>
    /\ cycleSrc = NoAddr
    /\ matchedFrom = NoAddr
    /\ sent = << >>
    /\ parser = NoParser

\* the next iteration of the outer loop: the locals of the cycle are dropped
EndCycle ==
    /\ pc' = "AwaitingQuery"
    /\ src' = NoAddr
    /\ query_id' = 0
    /\ elapsed' = 0
    /\ response' = NoPacket

\* an unwrap of an Err or an index out of bounds: the process ends
Panic ==
    /\ pc' = "Panicked"
    /\ UNCHANGED << src, query_id, elapsed, response >>

\* main.rs:11: UdpSocket::bind(..).unwrap(); ok is the outcome of bind
Bind(ok) ==
    /\ pc = "Binding"
    /\ pc' = IF ok THEN "AwaitingQuery" ELSE "Panicked"
    /\ UNCHANGED << buffer, src, query_id, elapsed, response, rcvd, cycleDgram, cycleSrc,
                    matchedFrom, sent, parser >>

\* after eprintln! (main.rs:26, 31, 51), which panics when stderr cannot be
\* written: logged is the outcome of the write; then `continue` or `break None`
LogAndEndCycle(logged) == IF logged THEN EndCycle ELSE Panic

\* main.rs:18-27: receive a client datagram from source s and parse the buffer
\* (a failed recv_from is retried, main.rs:20 and 46, and changes nothing)
RecvQuery(d, s, logged) ==
    /\ pc = "AwaitingQuery"
    /\ LET buf == recv_from(buffer, d)
           query == deserialize(buf)
       IN  /\ buffer' = buf
           /\ rcvd' = d
           /\ cycleDgram' = d
           /\ cycleSrc' = s
           /\ matchedFrom' = NoAddr
           /\ sent' = << >>
           /\ IF query.kind = "Ok"
              THEN /\ pc' = "Forwarding"
                   /\ src' = s
                   /\ query_id' = query.packet.header.id
                   /\ UNCHANGED << elapsed, response >>
              ELSE IF query.kind = "Err"
              THEN LogAndEndCycle(logged)
              ELSE Panic
    /\ UNCHANGED parser

\* main.rs:30-39: send the buffer upstream; ok is the outcome of send_to
Forward(ok, logged) ==
    /\ pc = "Forwarding"
    /\ IF ok
       THEN /\ sent' = Append(sent, [ call |-> "forward", dst |-> Upstream, bytes |-> buffer ])
            /\ pc' = "AwaitingResponse"
            /\ elapsed' = 0
            /\ UNCHANGED << src, query_id, response >>
       ELSE /\ LogAndEndCycle(logged)
            /\ UNCHANGED sent
    /\ UNCHANGED << buffer, rcvd, cycleDgram, cycleSrc, matchedFrom, parser >>

\* a response loop that binds the source of each datagram it receives to src
rebound_source(client, s) == s

\* main.rs:44: `let (_, _) = ...` drops the source s of the datagram; src is
\* still the binding of main.rs:18
response_source(client, s) == client

\* main.rs:44-63: one iteration of the response loop, on a datagram from s
RecvResponse(d, s, logged) ==
    /\ pc = "AwaitingResponse"
    /\ LET buf == recv_from(buffer, d)
           resp == deserialize(buf)
       IN  /\ buffer' = buf
           /\ rcvd' = d
           /\ IF resp.kind = "Panic" THEN Panic
              ELSE IF resp.kind = "Err" THEN LogAndEndCycle(logged)
              ELSE IF id_matches(resp.packet, query_id)
              THEN /\ pc' = "Replying"
                   /\ response' = resp.packet
                   /\ src' = response_source(src, s)
                   /\ UNCHANGED << query_id, elapsed >>
              ELSE IF clock_behind(elapsed) THEN Panic
              ELSE IF timed_out(elapsed) THEN EndCycle
              ELSE /\ src' = response_source(src, s)
                   /\ UNCHANGED << pc, query_id, elapsed, response >>
           /\ matchedFrom' = IF resp.kind = "Ok" /\ id_matches(resp.packet, query_id)
                             THEN s ELSE matchedFrom
    /\ UNCHANGED << cycleDgram, cycleSrc, sent, parser >>

\* main.rs:67-77: rewrite, serialize and send to the client; ok is the outcome
\* of send_to, which is unwrapped
Reply(ok) ==
    /\ pc = "Replying"
    /\ IF Len(response.questions) = 0
       THEN Panic /\ UNCHANGED sent
       ELSE IF ok
       THEN /\ sent' = Append(sent, [ call |-> "reply", dst |-> src,
                                     bytes |-> serialize(rewrite(response)) ])
            /\ EndCycle
       ELSE Panic /\ UNCHANGED sent
    /\ UNCHANGED << buffer, rcvd, cycleDgram, cycleSrc, matchedFrom, parser >>

\* a second passes while the response loop waits in recv_from (the socket has
\* no read timeout, main.rs:11); past MaxElapsed a further second changes
\* nothing the program reads
Tick ==
    /\ pc = "AwaitingResponse"
    /\ elapsed < MaxElapsed
    /\ elapsed' = elapsed + 1
    /\ UNCHANGED << pc, buffer, src, query_id, response, rcvd, cycleDgram, cycleSrc,
                    matchedFrom, sent, parser >>

\* the wall clock is set back while the response loop waits (SystemTime is
\* not monotonic): it reads an earlier second, or a time before current_time
ClockSetBack ==
    /\ pc = "AwaitingResponse"
    /\ \E t \in (-1)..(elapsed - 1) : elapsed' = t
    /\ UNCHANGED << pc, buffer, src, query_id, response, rcvd, cycleDgram, cycleSrc,
                    matchedFrom, sent, parser >>

\* the socket delivers datagrams from any address, in either wait
Next ==
    \/ \E ok \in BOOLEAN : Bind(ok)
    \/ \E d \in Datagrams, s \in Sources, logged \in BOOLEAN : RecvQuery(d, s, logged)
    \/ \E ok \in BOOLEAN, logged \in BOOLEAN : Forward(ok, logged)
    \/ \E d \in Datagrams, s \in Sources, logged \in BOOLEAN : RecvResponse(d, s, logged)
    \/ \E ok \in BOOLEAN : Reply(ok)
    \/ Tick
    \/ ClockSetBack

Spec == Init /\ [][Next]_vars

\* the program runs each step it can take, and time passes; the clock is set
\* back only finitely often; the network owes the proxy no datagram
LiveSpec ==
    /\ Spec
    /\ WF_vars(Tick)
    /\ WF_vars(\E ok \in BOOLEAN : Bind(ok))
    /\ WF_vars(\E ok \in BOOLEAN, logged \in BOOLEAN : Forward(ok, logged))
    /\ WF_vars(\E ok \in BOOLEAN : Reply(ok))
    /\ <>[][~ClockSetBack]_vars

-----------------------------------------------------------------------------
(* dns.rs: one PacketParser followed call by call.  parser.stage is the    *)
(* call deserialize makes next ("header", "name", "fixed", "length",       *)
(* "data", "build") or how it ended ("done", "err", "panic");              *)
(* parser.section is the section being parsed; parser.lo is the cursor     *)
(* before the last call and parser.n the number of bytes that call asked   *)
(* for; parser.bytes are question_bytes or record_bytes.                   *)

\* the first section that still lacks entries the header declares
pending(packet) ==
    IF Len(packet.questions) < packet.header.qd_count THEN "questions"
    ELSE IF Len(packet.answers) < packet.header.an_count THEN "answers"
    ELSE IF Len(packet.authorities) < packet.header.ns_count THEN "authorities"
    ELSE IF Len(packet.additionals) < packet.header.ar_count THEN "additionals"
    ELSE "none"

\* the loop tests of dns.rs:180 and 212 and the calls of dns.rs:222-228
next_stage(packet) == IF pending(packet) = "none" THEN "done" ELSE "name"

\* PacketParser::new (dns.rs:117-119)
new_parser ==
    [ stage |-> "header", section |-> "none", current |-> 0, lo |-> 0, n |-> 0,
      bytes |-> << >>, packet |-> NoPacket ]

\* the parser after self.advance_n(n)? returned a: the slice joins the bytes
\* gathered and the parser goes on to stage next, or the error is returned
advanced(ps, a, n, next) ==
    [ ps EXCEPT !.stage = IF a.ok THEN next ELSE "err",
                !.lo = ps.current,
                !.n = n,
                !.current = a.current,
                !.bytes = IF a.ok THEN @ \o a.bytes ELSE @ ]

\* the packet with one more entry in a section
pushed(packet, section, entry) == [ packet EXCEPT ![section] = Append(@, entry) ]

\* the parser after an entry was built and pushed (dns.rs:196, 218)
built(ps, packet) ==
    [ ps EXCEPT !.stage = next_stage(packet),
                !.section = pending(packet),
                !.lo = ps.current,
                !.n = 0,
                !.bytes = << >>,
                !.packet = packet ]

UnchangedMain ==
    UNCHANGED << pc, buffer, src, query_id, elapsed, response, rcvd, cycleDgram,
                 cycleSrc, matchedFrom, sent >>

\* dns.rs:205-207
ParseHeader ==
    /\ parser.stage = "header"
    /\ LET a == advance_n(buffer, parser.current, HeaderLen)
       IN  parser' =
             IF a.ok
             THEN built([ parser EXCEPT !.current = a.current ],
                        [ NoPacket EXCEPT !.header = HeaderFromBytes(a.bytes) ])
             ELSE advanced(parser, a, HeaderLen, "err")
    /\ UnchangedMain

\* self.parse_name()? (dns.rs:181, 213); buffer[self.current] is an indexed read
ParseName ==
    /\ parser.stage = "name"
    /\ parser' =
         IF parser.current >= Len(buffer)
         THEN [ parser EXCEPT !.stage = "panic" ]
         ELSE advanced([ parser EXCEPT !.bytes = << >> ],
                       parse_name(buffer, parser.current),
                       IF is_current_jmp(buffer, parser.current) THEN 2
                       ELSE get_name_length(buffer, parser.current),
                       "fixed")
    /\ UnchangedMain

\* self.advance_n(4)? of a question (dns.rs:216), self.advance_n(8)? of a
\* record (dns.rs:184)
AdvanceFixed ==
    /\ parser.stage = "fixed"
    /\ parser' =
         IF parser.section = "questions"
         THEN advanced(parser, advance_n(buffer, parser.current, 4), 4, "build")
         ELSE advanced(parser, advance_n(buffer, parser.current, 8), 8, "length")
    /\ UnchangedMain

\* self.advance_n(2)? (dns.rs:187): the length of the data
AdvanceLength ==
    /\ parser.stage = "length"
    /\ parser' = advanced(parser, advance_n(buffer, parser.current, 2), 2, "data")
    /\ UnchangedMain

\* the length read last (dns.rs:187-189)
length_read(ps) == from_be_bytes(SubSeq(ps.bytes, Len(ps.bytes) - 1, Len(ps.bytes)))

\* self.advance_n(length as usize)? (dns.rs:191)
AdvanceData ==
    /\ parser.stage = "data"
    /\ parser' = advanced(parser,
                          advance_n(buffer, parser.current, length_read(parser)),
                          length_read(parser), "build")
    /\ UnchangedMain

\* Question::try_from(..).unwrap() and push (dns.rs:218),
\* Record::try_from(..).unwrap() and push (dns.rs:196)
BuildEntry ==
    /\ parser.stage = "build"
    /\ parser' =
         IF parser.section = "questions"
         THEN IF QuestionTryFrom(parser.bytes).ok
              THEN built(parser, pushed(parser.packet, parser.section,
                                        QuestionTryFrom(parser.bytes).value))
              ELSE [ parser EXCEPT !.stage = "panic" ]
         ELSE IF RecordTryFrom(parser.bytes).ok
              THEN built(parser, pushed(parser.packet, parser.section,
                                        RecordTryFrom(parser.bytes).value))
              ELSE [ parser EXCEPT !.stage = "panic" ]
    /\ UnchangedMain

(* The buffers the parser is followed on.                                  *)

\* [7]example[3]com[0]
ExampleName == << 7, 101, 120, 97, 109, 112, 108, 101, 3, 99, 111, 109, 0 >>

\* n bytes of value 1
Ones(n) == [ i \in 1..n |-> 1 ]

\* the question ends at offset 28: the name of the answer, at offset 29, is a
\* pointer to offset 12, where the name of the question is
CompressedAnswer ==
    Hdr(1, 1, 1, 1, 0, 0) \o Qn(ExampleName)
    \o Rec(<< 192, 12 >>, 1, << 93, 184, 216, 34 >>)

\* the name of the answer, at offset 29, is a pointer to offset 29
SelfPointer ==
    Hdr(1, 1, 1, 1, 0, 0) \o Qn(ExampleName)
    \o Rec(<< 192, 29 >>, 1, << 93, 184, 216, 34 >>)

\* the name of the answer is [3]www followed by a pointer to offset 12
LabelsThenPointer ==
    Hdr(1, 1, 1, 1, 0, 0) \o Qn(ExampleName)
    \o Rec(<< 3, 119, 119, 119, 192, 12 >>, 1, << 93, 184, 216, 34 >>)

\* an additional record with the root name (an OPT record)
RootNameRecord ==
    Hdr(1, 0, 1, 0, 0, 1) \o Qn(GoogleName) \o Rec(<< 0 >>, 41, << >>)

\* two records declared; the data of the first ends on the last byte of the buffer
FullBuffer == Hdr(1, 1, 0, 2, 0, 0) \o Rec(PtrName, 16, Ones(488))

\* the data of the record ends one byte before the end of the buffer
AlmostFull == Hdr(1, 1, 0, 1, 0, 0) \o Rec(PtrName, 16, Ones(487))

\* 600 bytes: a query, zero bytes up to offset 511, and 88 bytes that do not
\* fit the buffer and declare nothing
LongDatagram == Hdr(9, 0, 1, 0, 0, 0) \o Qn(GoogleName) \o Zeros(484) \o Ones(88)

ParserDatagrams ==
    { CompressedAnswer, SelfPointer, LabelsThenPointer, RootNameRecord,
      FullBuffer, AlmostFull, LongDatagram }

\* a response with every header field set, one question and one answer whose
\* name is a compression pointer
PacketFlags ==
    [ header |-> [ id |-> 4660, qr |-> 1, opcode |-> 2, aa |-> 1, tc |-> 0, rd |-> 1,
                   ra |-> 1, z |-> 5, r_code |-> 3, qd_count |-> 1, an_count |-> 1,
                   ns_count |-> 0, ar_count |-> 0 ],
      questions |-> << [ name |-> GoogleName, ty |-> 1, class |-> 1 ] >>,
      answers |-> << [ name |-> 49164, ty |-> 1, class |-> 1, ttl |-> 86400,
                       len |-> 4, data |-> << 8, 8, 8, 8 >> ] >>,
      authorities |-> << >>, additionals |-> << >> ]

\* a packet whose one answer is Record::default()
PacketDefaultRecord ==
    [ NoPacket EXCEPT !.header.an_count = 1, !.answers = << NoRecord >> ]

\* a packet whose serialization is 512 bytes long
PacketFull ==
    [ NoPacket EXCEPT !.header.an_count = 1,
                      !.answers = << [ name |-> 49164, ty |-> 16, class |-> 1, ttl |-> 60,
                                       len |-> 488, data |-> Ones(488) ] >> ]

CodecPackets == { PacketFlags, PacketDefaultRecord, PacketFull }

\* the bytes of a packet, received into a fresh buffer
Encoded(p) == recv_from(Zeros(BufLen), serialize(p))

ParserBuffers ==
    { recv_from(Zeros(BufLen), d) : d \in Datagrams \cup ParserDatagrams }
    \cup { Encoded(p) : p \in CodecPackets }

ParserInit ==
    /\ pc = "AwaitingQuery"
    /\ buffer \in ParserBuffers
    /\ src = NoAddr
    /\ query_id = 0
    /\ elapsed = 0
    /\ response = NoPacket
    /\ rcvd = << >>
    /\ cycleDgram = << >>
    /\ cycleSrc = NoAddr
    /\ matchedFrom = NoAddr
    /\ sent = << >>
    /\ parser = new_parser

ParserNext ==
    \/ ParseHeader
    \/ ParseName
    \/ AdvanceFixed
    \/ AdvanceLength
    \/ AdvanceData
    \/ BuildEntry

ParserSpec == ParserInit /\ [][ParserNext]_vars

\* the parser has returned or panicked
ParserEnded == parser.stage \in { "done", "err", "panic" }

\* followed call by call, deserialize ends as the operator deserialize says
ParserAgrees ==
    ParserEnded =>
        /\ parser.stage = ( CASE deserialize(buffer).kind = "Ok" -> "done"
                               [] deserialize(buffer).kind = "Err" -> "err"
                               [] OTHER -> "panic" )
        /\ parser.current = deserialize(buffer).current
        /\ parser.stage = "done" => parser.packet = deserialize(buffer).packet

-----------------------------------------------------------------------------
(* The claims.                                                             *)

\* the sends of the current cycle that went to a client
ClientSends == { i \in 1..Len(sent) : sent[i].call = "reply" }

\* the sends of the current cycle that went to the upstream resolver
UpstreamSends == { i \in 1..Len(sent) : sent[i].call = "forward" }

\* the id in the first two bytes of a datagram
WireId(d) == from_be_bytes(SubSeq(d, 1, 2))

\* C1: whatever is received and whatever the send primitive returns, the
\* process never terminates or panics: once a datagram has been received the
\* process is still running.
C1_NeverPanics == rcvd # << >> => pc # "Panicked"

\* C2: a well-formed datagram with another id never ends the wait with a
\* reply: the wait is left for Replying only with a response whose id is the
\* id of the query of the cycle, no client send exists while the proxy still
\* waits, and every datagram sent to a client carries the id of the client
\* datagram that started the cycle.
C2_RepliesCarryQueryId ==
    /\ pc = "Replying" =>
         /\ response.header.id = query_id
         /\ query_id = WireId(cycleDgram)
    /\ pc = "AwaitingResponse" => ClientSends = {}
    /\ \A i \in ClientSends : WireId(sent[i].bytes) = WireId(cycleDgram)

\* C2 witness: the proxy still waits after a well-formed datagram with
\* another id was received in this cycle.
C2_Witness ==
    /\ pc = "AwaitingResponse"
    /\ deserialize(buffer).kind = "Ok"
    /\ deserialize(buffer).packet.header.id # query_id
    /\ rcvd # cycleDgram
    /\ Len(sent) = 1

\* C3: once a query is forwarded the wait always ends, also when no
\* datagram arrives: the deadline aborts the cycle.
C3_WaitEnds == (pc = "AwaitingResponse") ~> (pc # "AwaitingResponse")

\* C4: a matching response received once the deadline has elapsed does not
\* complete the cycle: the proxy is in Replying only with a response that was
\* received before the deadline.
C4_NoReplyAfterDeadline == pc = "Replying" => elapsed < TimeoutSecs

\* C5: in AwaitingResponse a datagram that fails to parse is discarded and
\* the proxy keeps waiting in the same cycle.
C5_ParseFailureKeepsWaiting ==
    [][ (pc = "AwaitingResponse" /\ deserialize(buffer').kind = "Err")
            => pc' = "AwaitingResponse" ]_vars

\* C6: a client datagram that fails to parse is not forwarded and the loop
\* is back in AwaitingQuery.
C6_UnparsedQueryNotForwarded ==
    [][ (pc = "AwaitingQuery" /\ deserialize(buffer').kind # "Ok")
            => (pc' = "AwaitingQuery" /\ sent' = << >>) ]_vars

\* C7: the bytes sent upstream are exactly the bytes of the client datagram
\* of the cycle, same length and same content.
C7_ForwardsDatagramUnmodified ==
    \A i \in UpstreamSends : sent[i].bytes = cycleDgram

\* C8: in Replying, whatever the outcome of serialize and of the send to the
\* client, the process keeps running and the loop returns to AwaitingQuery.
C8_ReplyFailureDiscarded ==
    [][ (pc = "Replying" /\ Len(response.questions) > 0)
            => pc' = "AwaitingQuery" ]_vars

\* the transform as C9 states it: when the first question names the target
\* domain, the rdata of the answers of address type becomes the fixed address
claimed_rewrite(resp) ==
    IF get_name_as_string(resp.questions[1]) = TargetDomain
    THEN [ resp EXCEPT !.answers =
             [ i \in 1..Len(resp.answers) |->
                 IF resp.answers[i].ty = 1
                 THEN [ resp.answers[i] EXCEPT !.data = FixedAddress ]
                 ELSE resp.answers[i] ] ]
    ELSE resp

\* C9: the reply sent to the client is the matched response (still held by
\* the buffer) with the rdata of its address-type answers replaced by 1.3.3.7
\* when the first question names the target domain, and nothing else changed.
C9_RewritesOnlyAddressAnswers ==
    \A i \in ClientSends :
        sent[i].bytes = serialize(claimed_rewrite(deserialize(buffer).packet))

\* C10: a packet is returned only when every declared entry was parsed from
\* the datagram: the sections have the declared sizes and the parse did not
\* read past the end of the received datagram.
C10_CountsMatchDatagram ==
    LET r == deserialize(buffer)
    IN  (rcvd # << >> /\ r.kind = "Ok") =>
          /\ Len(r.packet.questions) = r.packet.header.qd_count
          /\ Len(r.packet.answers) = r.packet.header.an_count
          /\ Len(r.packet.authorities) = r.packet.header.ns_count
          /\ Len(r.packet.additionals) = r.packet.header.ar_count
          /\ r.current <= Len(rcvd)


\* a value survives to_bytes followed by from_bytes / try_from
HeaderRoundTrips(h) == HeaderFromBytes(HeaderToBytes(h)) = h
QuestionRoundTrips(q) == QuestionTryFrom(QuestionToBytes(q)) = [ ok |-> TRUE, value |-> q ]
RecordRoundTrips(r) == RecordTryFrom(RecordToBytes(r)) = [ ok |-> TRUE, value |-> r ]

\* every header, question and record of the packet survives the round trip
ValuesRoundTrip(p) ==
    /\ HeaderRoundTrips(p.header)
    /\ \A i \in DOMAIN p.questions : QuestionRoundTrips(p.questions[i])
    /\ \A section \in { "answers", "authorities", "additionals" } :
         \A i \in DOMAIN p[section] : RecordRoundTrips(p[section][i])

\* C11: decode(encode(x)) = x for every header, question and record, and
\* parsing the serialization of a packet gives the packet back: the parser,
\* once it has ended on the bytes of serialize(p), has returned p.
C11_RoundTrip ==
    \A p \in CodecPackets :
        /\ ValuesRoundTrip(p)
        /\ (buffer = Encoded(p) /\ ParserEnded) =>
               (parser.stage = "done" /\ parser.packet = p)

\* the part of C11 that the code keeps: the round trip of each value
C11_ValuesOnly == \A p \in CodecPackets : ValuesRoundTrip(p)

\* the most pointers followed while expanding one name
MaxHops == 3

\* the offset a compression pointer at offset i designates: the low 14 bits
\* of its two bytes
pointer_target(buf, i) == ((buf[i + 1] % 64) * 256) + buf[i + 2]

\* the fully expanded name that starts at offset i, in wire form: the labels,
\* with every compression pointer replaced by the name it designates, and the
\* closing zero byte; << >> when the name leaves the buffer or needs more
\* than hops pointers
RECURSIVE expanded_name(_, _, _)
expanded_name(buf, i, hops) ==
    IF i + 1 >= Len(buf) THEN << >>
    ELSE IF buf[i + 1] = 0 THEN << 0 >>
    ELSE IF buf[i + 1] >= JmpMask
         THEN IF hops = 0 THEN << >>
              ELSE expanded_name(buf, pointer_target(buf, i), hops - 1)
    ELSE SubSeq(buf, i + 1, Min(i + 1 + buf[i + 1], Len(buf)))
         \o expanded_name(buf, i + 1 + buf[i + 1], hops)

\* decoding the name at offset i comes back to an offset it has visited
RECURSIVE revisits(_, _, _)
revisits(buf, i, visited) ==
    IF i \in visited THEN TRUE
    ELSE IF i + 1 >= Len(buf) THEN FALSE
    ELSE IF buf[i + 1] = 0 THEN FALSE
    ELSE IF buf[i + 1] >= JmpMask
         THEN revisits(buf, pointer_target(buf, i), visited \cup { i })
    ELSE revisits(buf, i + 1 + buf[i + 1], visited \cup { i })

\* parse_name has just returned the name that starts at offset parser.lo
NameParsed == parser.stage = "fixed"

\* C12: a name that is a 2-byte compression pointer decodes to the fully
\* expanded name stored at the offset the pointer designates, with exactly 2
\* bytes consumed at the position of the pointer (pointer chains that loop
\* are the case of C13).
C12_PointerExpands ==
    (NameParsed /\ is_current_jmp(buffer, parser.lo)
                /\ ~revisits(buffer, parser.lo, {})) =>
        /\ parser.bytes = expanded_name(buffer, parser.lo, MaxHops)
        /\ parser.current = parser.lo + 2

\* the part of C12 that the code keeps: 2 bytes are consumed
C12_PointerConsumesTwo ==
    (NameParsed /\ is_current_jmp(buffer, parser.lo)) =>
        parser.current = parser.lo + 2

\* C13: decoding a name whose pointer chain revisits an offset (a pointer at
\* offset X that points to X) fails with an error: the call of parse_name
\* returns no name and the parser does not panic.
C13_LoopFails ==
    [][ (parser.stage = "name" /\ revisits(buffer, parser.current, {})) =>
            parser'.stage = "err" ]_vars

\* C14: whatever the buffer holds, deserialize returns a packet or an error
\* and never panics.
C14_DeserializeNeverPanics == parser.stage # "panic"

\* C15: the cursor of a PacketParser stays inside the buffer and never
\* decreases: 0 <= current < buffer length, and the cursor before the last
\* call is not above the cursor after it.  The indexed read of
\* get_current_byte is buffer[current] and the slice of advance_n is
\* buffer[lo..current], so both lie inside the buffer.
C15_CursorInBounds ==
    /\ 0 <= parser.lo
    /\ parser.lo <= parser.current
    /\ parser.current < Len(buffer)

\* advance_n has refused a read of record bytes that would leave the buffer
C15_Witness ==
    /\ parser.stage = "err"
    /\ parser.current > HeaderLen
    /\ parser.current + parser.n >= Len(buffer)

\* the wire length of the name that starts at offset i: one byte more than
\* its length for every label, then 1 for the closing zero byte or 2 for a
\* closing compression pointer
RECURSIVE wire_length(_, _)
wire_length(buf, i) ==
    IF i >= Len(buf) THEN 0
    ELSE IF buf[i + 1] = 0 THEN 1
    ELSE IF buf[i + 1] >= JmpMask THEN 2
    ELSE 1 + buf[i + 1] + wire_length(buf, i + 1 + buf[i + 1])

\* C16: parse_name advances the cursor by exactly the wire length of the name
\* that starts at the cursor: the labels and the zero byte, or the labels and
\* the 2 bytes of a closing pointer, or 2 for a pointer alone.
C16_NameAdvancesWireLength ==
    NameParsed => parser.current = parser.lo + wire_length(buffer, parser.lo)

\* the bytes between the cursor and the end of the buffer
remaining(ps) == Len(buffer) - ps.current

\* C17: the read of the data of a record fails exactly when fewer bytes than
\* the length read remain in the buffer, and then leaves the cursor where it
\* was; when at least that many remain (a field that ends on the last byte of
\* the buffer included) it succeeds and the cursor moves past the data.
C17_DataReadFailsOnlyWhenShort ==
    [][ parser.stage = "data" =>
          IF length_read(parser) > remaining(parser)
          THEN parser'.stage = "err" /\ parser'.current = parser.current
          ELSE /\ parser'.stage = "build"
               /\ parser'.current = parser.current + length_read(parser) ]_vars

\* the part of C17 that the code keeps: a failed read leaves the cursor alone
C17_FailedReadKeepsCursor ==
    [][ (parser.stage = "data" /\ parser'.stage = "err") =>
            parser'.current = parser.current ]_vars

\* the records of a packet, section after section
records_of(p) == p.answers \o p.authorities \o p.additionals

\* the length field of every record is the number of bytes of its data
lengths_agree(p) ==
    \A i \in DOMAIN records_of(p) : records_of(p)[i].len = Len(records_of(p)[i].data)

\* what the bytes d parse to when received into a fresh buffer: by a client,
\* or by the proxy in a run with no earlier datagram
parse_fresh(d) == deserialize(recv_from(Zeros(BufLen), d))

\* C18: in every packet serialized and sent to a client the length field of
\* each record is the number of bytes of its data, also after the rewrite of
\* the answers, so the bytes sent parse back into the same records.
C18_SentLengthsAgree ==
    [][ (pc = "Replying" /\ sent' # sent) =>
          /\ lengths_agree(rewrite(response))
          /\ parse_fresh(sent'[Len(sent')].bytes).kind = "Ok"
          /\ records_of(parse_fresh(sent'[Len(sent')].bytes).packet)
               = records_of(rewrite(response)) ]_vars

\* the part of C18 that the code keeps: the responses parsed from the wire
\* have records whose length field is the number of bytes of their data
C18_ParsedLengthsAgree == lengths_agree(response)

\* the outcome of a parse: success, error or panic, and the packet returned
outcome(r) == [ kind |-> r.kind, packet |-> IF r.kind = "Ok" THEN r.packet ELSE NoPacket ]

\* C19: the result of parsing a received datagram is determined by the bytes
\* of that datagram alone: received after earlier datagrams into the reused
\* buffer, it parses as it does when received into a fresh buffer.
C19_NoStaleBytes ==
    rcvd # << >> => outcome(deserialize(buffer)) = outcome(parse_fresh(rcvd))

\* C20: one cycle at a time.  A cycle makes at most one send upstream (the
\* forward, to the upstream resolver) and at most one send to its client (the
\* reply); the reply is made after the forward and after a response was
\* matched; it goes to the source of the datagram that started the cycle,
\* whatever the source of the datagrams received while awaiting the
\* response; and a query is forwarded only in a cycle that has sent nothing.
C20_OneCycleAtATime ==
    /\ \A i, j \in UpstreamSends : i = j
    /\ \A i, j \in ClientSends : i = j
    /\ \A i \in UpstreamSends : sent[i].dst = Upstream
    /\ \A i \in ClientSends :
         /\ \E j \in UpstreamSends : j < i
         /\ sent[i].dst = cycleSrc
         /\ WireId(sent[i].bytes) = WireId(sent[1].bytes)
    /\ pc = "Forwarding" => sent = << >>
    /\ pc \in { "AwaitingResponse", "Replying" } => Len(sent) = 1
    /\ pc = "Replying" => (src = cycleSrc /\ id_matches(response, query_id))

\* C20 witness: a cycle has ended with its reply sent to the source of the
\* datagram that started it, although the response matched came from
\* another address.
C20_Witness ==
    /\ pc = "AwaitingQuery"
    /\ ClientSends # {}
    /\ \A i \in ClientSends : sent[i].dst = cycleSrc
    /\ matchedFrom # NoAddr
    /\ matchedFrom # cycleSrc

=============================================================================
